---- MODULE Spec2Model ----
(***************************************************************************)
(* A model of unified_professor_grades.py: the table-stabilisation poller  *)
(* (wait_for_table_stabilize), the browser session of one query            *)
(* (get_professor_courses), the query loop (main) and the reconciliation   *)
(* of the extracted courses with the grade file (merge, pivot, reindex,    *)
(* Total, Avg.).                                                           *)
(*                                                                         *)
(* Text cells are sequences of one-character strings, so that str.strip()  *)
(* and astype(int) are modelled by what they do.  Avg. is kept in          *)
(* hundredths (8.67 is 867), which is what round(2) leaves.                *)
(***************************************************************************)
EXTENDS Integers, Sequences, FiniteSets, TLC

VARIABLES
    pc,               \* position of the program: see the actions
    max_wait,         \* wait_for_table_stabilize: parameter
    stable_duration,  \* wait_for_table_stabilize: parameter
    last_df,          \* wait_for_table_stabilize: shape of last_df, <<>> for None
    stable_secs,      \* wait_for_table_stabilize: local counter
    now,              \* time.time() - start_time, in whole seconds
    samples,          \* the shapes the driver has served to the poller so far
    sessions,         \* number of live webdriver sessions
    queries,          \* number of professor names entered so far
    fetched,          \* what get_professor_courses ended with in this query
    final_page,       \* <<page>> once get_professor_courses has parsed its final capture
    courses_df,       \* raw course rows of the query (Year, Semester, Course)
    grades_file,      \* grades.xlsx as it is on disk
    report            \* what the body of main's loop ended with

vars == <<pc, max_wait, stable_duration, last_df, stable_secs, now, samples,
          sessions, queries, fetched, final_page, courses_df, grades_file, report>>

(***************************************************************************)
(* Bounds of the model.                                                    *)
(***************************************************************************)
MaxCourses == 2      \* course rows of one query in SpecRecon
MaxGradeRows == 2    \* rows of grades.xlsx in SpecRecon
MaxWait == 8         \* largest max_wait the poller is called with
MaxStable == 6       \* largest stable_duration the poller is called with
MaxLag == 1          \* seconds one page capture may take
MaxQueries == 2      \* professor names entered in one run of main
MaxRows == 1         \* data rows of the remote table in the query loop

(***************************************************************************)
(* Program constants.                                                      *)
(***************************************************************************)
DefaultMaxWait == 60
DefaultStableDuration == 6

ALLOWED_GRADES == <<"A*", "A", "B+", "B", "C+", "C", "D+", "D", "E", "F", "S", "X">>

AllowedSet == {ALLOWED_GRADES[i] : i \in DOMAIN ALLOWED_GRADES}

grade_points ==
    [g \in {"A*", "A", "B+", "B", "C+", "C", "D+", "D", "E", "F"} |->
        CASE g = "A*" -> 10 [] g = "A" -> 10 [] g = "B+" -> 9 [] g = "B" -> 8
          [] g = "C+" -> 7 [] g = "C" -> 6 [] g = "D+" -> 5 [] g = "D" -> 4
          [] g = "E" -> 0 [] g = "F" -> 0]

(***************************************************************************)
(* Text cells.                                                             *)
(***************************************************************************)
Whitespace == {" "}

Digits == {"0", "1", "2", "3", "4", "5", "6", "7", "8", "9"}

DigitVal(c) ==
    CASE c = "0" -> 0 [] c = "1" -> 1 [] c = "2" -> 2 [] c = "3" -> 3
      [] c = "4" -> 4 [] c = "5" -> 5 [] c = "6" -> 6 [] c = "7" -> 7
      [] c = "8" -> 8 [] c = "9" -> 9

RECURSIVE LStrip(_)
LStrip(s) == IF s # <<>> /\ Head(s) \in Whitespace THEN LStrip(Tail(s)) ELSE s

RECURSIVE RStrip(_)
RStrip(s) ==
    IF s # <<>> /\ s[Len(s)] \in Whitespace
    THEN RStrip(SubSeq(s, 1, Len(s) - 1))
    ELSE s

\* str.strip()
Strip(s) == RStrip(LStrip(s))

\* int(text) accepts surrounding blanks and needs at least one digit
IntParseable(s) == Strip(s) # <<>> /\ \A i \in DOMAIN Strip(s) : Strip(s)[i] \in Digits

RECURSIVE DigitsValue(_)
DigitsValue(s) ==
    IF s = <<>> THEN 0 ELSE 10 * DigitsValue(SubSeq(s, 1, Len(s) - 1)) + DigitVal(s[Len(s)])

ToInt(s) == DigitsValue(Strip(s))

(***************************************************************************)
(* Reconciliation: the body of main's loop after the courses are fetched.  *)
(* A course row is [Year, Semester, Course] of text cells; a row of the    *)
(* grade file is [Year, Semester, Course, Grade, Count].                   *)
(***************************************************************************)
NaN == "NaN"

\* Year and Course: astype(str).str.strip(); Semester: astype(int)
KeyOf(row) ==
    [Year |-> Strip(row.Year), Semester |-> ToInt(row.Semester), Course |-> Strip(row.Course)]

SemestersParse(rows) == \A i \in DOMAIN rows : IntParseable(rows[i].Semester)

\* grades_df[grades_df['Grade'].isin(ALLOWED_GRADES)]
FilterAllowed(rows) == SelectSeq(rows, LAMBDA r : r.Grade \in AllowedSet)

\* pd.merge(courses_df, grades_df, on=[Year, Semester, Course], how='left'):
\* the rows of the left frame in order, each once per matching right row, and
\* once with NaN Grade and Count when no right row matches
RECURSIVE LeftMerge(_, _)
LeftMerge(courses, grades) ==
    IF courses = <<>> THEN <<>>
    ELSE LET k == KeyOf(Head(courses))
             m == SelectSeq(grades, LAMBDA g : KeyOf(g) = k)
             rows == IF m = <<>>
                     THEN << [key |-> k, Grade |-> NaN, Count |-> NaN] >>
                     ELSE [i \in DOMAIN m |->
                              [key |-> k, Grade |-> m[i].Grade, Count |-> m[i].Count]]
         IN rows \o LeftMerge(Tail(courses), grades)

RECURSIVE SumCount(_, _, _)
SumCount(rows, k, g) ==
    IF rows = <<>> THEN 0
    ELSE (IF Head(rows).key = k /\ Head(rows).Grade = g THEN Head(rows).Count ELSE 0)
         + SumCount(Tail(rows), k, g)

\* merged.pivot_table(index=[Year, Semester, Course], columns='Grade',
\* values='Count', aggfunc='sum', fill_value=0): the group-by drops the rows
\* whose Grade is NaN; a (key, grade) pair without rows is filled with 0
PivotTable(merged) ==
    LET kept == SelectSeq(merged, LAMBDA r : r.Grade # NaN)
        index == {kept[i].key : i \in DOMAIN kept}
        columns == {kept[i].Grade : i \in DOMAIN kept}
    IN [k \in index |-> [g \in columns |-> SumCount(kept, k, g)]]

\* pivot.reindex(columns=[...12 grades...], fill_value=0)
Reindex(pivot, columns, fill_value) ==
    [k \in DOMAIN pivot |->
        [g \in columns |-> IF g \in DOMAIN pivot[k] THEN pivot[k][g] ELSE fill_value]]

\* the sum of the values of a function (a row restricted to some columns)
RECURSIVE SumOver(_)
SumOver(f) ==
    IF DOMAIN f = {} THEN 0
    ELSE LET x == CHOOSE y \in DOMAIN f : TRUE
         IN f[x] + SumOver([y \in DOMAIN f \ {x} |-> f[y]])

\* weighted_sum and total_counts of one row: the ten graded letters only
WeightedSum(counts) == SumOver([g \in DOMAIN grade_points |-> counts[g] * grade_points[g]])

TotalCounts(counts) == SumOver([g \in DOMAIN grade_points |-> counts[g]])

\* a Total over the weighted grades only
TotalWithoutSX(counts) == TotalCounts(counts)

\* pivot[ALLOWED_GRADES].sum(axis=1)
Total(counts) == SumOver([g \in AllowedSet |-> counts[g]])

\* round(2) of n / d, in hundredths; numpy rounds a tie to the even neighbour
Round2(n, d) ==
    LET q == (100 * n) \div d
        r == (100 * n) % d
    IN IF 2 * r < d THEN q
       ELSE IF 2 * r > d THEN q + 1
       ELSE IF q % 2 = 0 THEN q ELSE q + 1

\* the variant the source's comment mentions: 0 instead of NaN
AvgZeroForNoCounts(counts) ==
    IF TotalCounts(counts) > 0
    THEN [null |-> FALSE, hundredths |-> Round2(WeightedSum(counts), TotalCounts(counts))]
    ELSE [null |-> FALSE, hundredths |-> 0]

\* np.where(total_counts > 0, weighted_sum / total_counts, np.nan).round(2)
Avg(counts) ==
    IF TotalCounts(counts) > 0
    THEN [null |-> FALSE, hundredths |-> Round2(WeightedSum(counts), TotalCounts(counts))]
    ELSE [null |-> TRUE, hundredths |-> 0]

\* the printed table, one record per row of the pivot (row order not modelled)
Reconcile(courses, grades) ==
    LET merged == LeftMerge(courses, grades)
        pivot == Reindex(PivotTable(merged), AllowedSet, 0)
    IN {[key |-> k, counts |-> pivot[k], Total |-> Total(pivot[k]), Avg |-> Avg(pivot[k])]
            : k \in DOMAIN pivot}

Outcome(kind, exc, loaded, table) ==
    [kind |-> kind, exc |-> exc, loaded |-> loaded, table |-> table]

\* main without the `if courses_df.empty: continue`
MainBodyWithoutEmptyCheck(courses, file) ==
    IF ~file.readable THEN Outcome("raised", "read_excel", FALSE, {})
    ELSE LET grades == FilterAllowed(file.rows) IN
         IF ~SemestersParse(courses) \/ ~SemestersParse(grades)
         THEN Outcome("raised", "ValueError", TRUE, {})
         ELSE Outcome("printed", "", TRUE, Reconcile(courses, grades))

\* main, from `if courses_df.empty` to plot_grade_distribution, for one query
MainBody(courses, file) ==
    IF courses = <<>> THEN Outcome("no_courses", "", FALSE, {})
    ELSE IF ~file.readable THEN Outcome("raised", "read_excel", FALSE, {})
    ELSE LET grades == FilterAllowed(file.rows) IN
         IF ~SemestersParse(courses) \/ ~SemestersParse(grades)
         THEN Outcome("raised", "ValueError", TRUE, {})
         ELSE Outcome("printed", "", TRUE, Reconcile(courses, grades))

(***************************************************************************)
(* Inputs of the reconciliation (SpecRecon).                                *)
(***************************************************************************)
Y23 == <<"2", "3">>
Y23Pad == <<" ", "2", "3">>
CS == <<"C", "S">>
CSPad == <<"C", "S", " ">>
Sem1 == <<"1">>
Sem2 == <<"2">>
SemBad == <<"x">>

RawCourseRows ==
    { [Year |-> Y23, Semester |-> Sem1, Course |-> CS],
      [Year |-> Y23Pad, Semester |-> Sem1, Course |-> CSPad],
      [Year |-> Y23, Semester |-> Sem2, Course |-> CS],
      [Year |-> Y23, Semester |-> SemBad, Course |-> CS] }

Y23Sem1 == [Year |-> Y23Pad, Semester |-> Sem1, Course |-> CS]
Y23Sem2 == [Year |-> Y23, Semester |-> Sem2, Course |-> CSPad]
Y23SemBad == [Year |-> Y23, Semester |-> SemBad, Course |-> CS]

GradeRow(k, g, n) ==
    [Year |-> k.Year, Semester |-> k.Semester, Course |-> k.Course, Grade |-> g, Count |-> n]

CountCells == {0, 1, 2}

\* "Q" is a grade code outside ALLOWED_GRADES
RawGradeRows ==
    {GradeRow(k, g, n) : k \in {Y23Sem1, Y23Sem2}, g \in {"A", "F", "S"}, n \in CountCells}
        \cup {GradeRow(Y23Sem1, "Q", 1), GradeRow(Y23SemBad, "Q", 1), GradeRow(Y23SemBad, "A", 1)}

SeqsUpTo(S, n) == UNION {[1..m -> S] : m \in 0..n}

NoReport == Outcome("none", "", FALSE, {})

\* a capture of the results frame: whether it holds a table, whether the
\* header row names ACADEMIC YEAR, SEM and COURSE NAME, and the data rows
Page(table, headers, rows) == [table |-> table, headers |-> headers, rows |-> rows]

NoPage == Page(FALSE, FALSE, <<>>)

InitRecon ==
    /\ pc = "fetched"
    /\ courses_df \in SeqsUpTo(RawCourseRows, MaxCourses)
    /\ \E rd \in BOOLEAN, rows \in SeqsUpTo(RawGradeRows, MaxGradeRows) :
          grades_file = [readable |-> rd, rows |-> IF rd THEN rows ELSE <<>>]
    /\ report = NoReport
    /\ max_wait = 0 /\ stable_duration = 0 /\ last_df = <<>> /\ stable_secs = 0
    /\ now = 0 /\ samples = <<>> /\ sessions = 0 /\ queries = 1
    /\ fetched = "returned" /\ final_page = <<Page(TRUE, TRUE, courses_df)>>

\* main from `if courses_df.empty` to the end of the loop body: an exception
\* is not handled anywhere and ends main
RunBody ==
    /\ pc = "fetched"
    /\ report' = MainBody(courses_df, grades_file)
    /\ pc' = IF report'.kind = "raised" THEN "crashed" ELSE "prompt"
    /\ UNCHANGED <<max_wait, stable_duration, last_df, stable_secs, now, samples,
                   sessions, queries, fetched, final_page, courses_df, grades_file>>

NextRecon == RunBody

SpecRecon == InitRecon /\ [][NextRecon]_vars

(***************************************************************************)
(* Claims about the reconciled table (SpecRecon).                          *)
(***************************************************************************)
Printed == pc = "prompt" /\ report.kind = "printed"

\* the keys of the query, normalised
CourseKeys == {KeyOf(courses_df[i]) : i \in DOMAIN courses_df}

\* the rows of the grade file with grade g and key k
FileRows(k, g) ==
    {i \in DOMAIN grades_file.rows :
        grades_file.rows[i].Grade = g /\ KeyOf(grades_file.rows[i]) = k}

RECURSIVE SumRows(_)
SumRows(I) ==
    IF I = {} THEN 0
    ELSE LET i == CHOOSE j \in I : TRUE IN grades_file.rows[i].Count + SumRows(I \ {i})

\* the sum of Count over the GradeRecords with key k and grade g
FileCount(k, g) == SumRows(FileRows(k, g))

Matched(k) == \E g \in AllowedSet : FileRows(k, g) # {}

TwelveCounts(c) ==
    c["A*"] + c["A"] + c["B+"] + c["B"] + c["C+"] + c["C"] + c["D+"] + c["D"]
        + c["E"] + c["F"] + c["S"] + c["X"]

TenCounts(c) ==
    c["A*"] + c["A"] + c["B+"] + c["B"] + c["C+"] + c["C"] + c["D+"] + c["D"] + c["E"] + c["F"]

TenPoints(c) ==
    10 * c["A*"] + 10 * c["A"] + 9 * c["B+"] + 8 * c["B"] + 7 * c["C+"] + 6 * c["C"]
        + 5 * c["D+"] + 4 * c["D"] + 0 * c["E"] + 0 * c["F"]

\* C6: every course key of a non-empty query is a row of the printed table; a
\* key without any GradeRecord has all twelve counts 0, Total 0 and Avg null.
C6_EveryCourseHasRow ==
    Printed =>
        \A k \in CourseKeys :
            \E row \in report.table :
                /\ row.key = k
                /\ ~Matched(k) =>
                      /\ \A g \in AllowedSet : row.counts[g] = 0
                      /\ row.Total = 0
                      /\ row.Avg.null

\* C7: every row of the printed table has the twelve grade columns, each count
\* non-negative and 0 for a grade no row of the result matched, and Total is
\* the sum of the twelve, S and X included.
C7_TwelveColumnsAndTotal ==
    Printed =>
        \A row \in report.table :
            /\ DOMAIN row.counts = AllowedSet
            /\ \A g \in AllowedSet :
                  /\ row.counts[g] >= 0
                  /\ (\A k \in CourseKeys : FileRows(k, g) = {}) => row.counts[g] = 0
            /\ row.Total = TwelveCounts(row.counts)

\* C7 witness: a printed table of two rows, one matched by S only and one by
\* A only, each with 0 in the column the other matched and Total its own count.
C7_Witness ==
    /\ Printed
    /\ \E row, other \in report.table :
          /\ row.counts["S"] > 0 /\ row.counts["A"] = 0 /\ row.Total = row.counts["S"]
          /\ other.counts["A"] > 0 /\ other.counts["S"] = 0
          /\ other.Total = other.counts["A"]

\* C8 as stated: Avg is null iff the ten weighted counts sum to zero, and is
\* otherwise exactly the weighted sum divided by that sum, within 0..10.
C8_AvgExactQuotient ==
    Printed =>
        \A row \in report.table :
            /\ row.Avg.null <=> TenCounts(row.counts) = 0
            /\ ~row.Avg.null =>
                  /\ row.Avg.hundredths * TenCounts(row.counts) = 100 * TenPoints(row.counts)
                  /\ 0 <= row.Avg.hundredths /\ row.Avg.hundredths <= 1000

\* C8 amended: Avg is null iff the ten weighted counts sum to zero (so for a
\* row matched by S or X only), and is otherwise the weighted sum divided by
\* that sum, rounded to two decimals (the nearest hundredth), within 0..10.
C8_AvgRoundedQuotient ==
    Printed =>
        \A row \in report.table :
            /\ row.Avg.null <=> TenCounts(row.counts) = 0
            /\ ~row.Avg.null =>
                  LET d == row.Avg.hundredths * TenCounts(row.counts)
                              - 100 * TenPoints(row.counts)
                  IN /\ 2 * d <= TenCounts(row.counts)
                     /\ -2 * d <= TenCounts(row.counts)
                     /\ 0 <= row.Avg.hundredths /\ row.Avg.hundredths <= 1000

\* C8 witness: a printed table with a row matched by S only (Avg null) and a
\* row of graded students whose Avg is 10.00.
C8_Witness ==
    /\ Printed
    /\ \E row, other \in report.table :
          /\ row.counts["S"] > 0 /\ TenCounts(row.counts) = 0 /\ row.Avg.null
          /\ other.counts["A"] > 0 /\ ~other.Avg.null /\ other.Avg.hundredths = 1000

\* C10: the printed table has exactly one row per distinct course key (here
\* for the keys some GradeRecord matches; the keys without a match are the
\* subject of C6), and each count is the sum of Count over the GradeRecords
\* with that key and grade, however often the key occurs among the course rows.
C10_CountsAreFileSums ==
    Printed =>
        /\ {k \in CourseKeys : Matched(k)} \subseteq {row.key : row \in report.table}
        /\ {row.key : row \in report.table} \subseteq CourseKeys
        /\ \A r1, r2 \in report.table : r1.key = r2.key => r1 = r2
        /\ \A row \in report.table :
              \A g \in AllowedSet : row.counts[g] = FileCount(row.key, g)

(***************************************************************************)
(* wait_for_table_stabilize.  A capture is reduced to the shape of the     *)
(* frame parsed from it, <<rows, columns>> without the header row, and     *)
(* <<0, 0>> when the capture holds no table.  last_df = <<>> is None.      *)
(***************************************************************************)
\* a counter that takes the tick of a change as the first stable tick
CountStableFromChange(last, s, secs) ==
    IF last # <<>> THEN (IF s = last THEN secs + 1 ELSE 1) ELSE secs

\* stable_secs after comparing the shape s with last_df
CountStable(last, s, secs) ==
    IF last # <<>> THEN (IF s = last THEN secs + 1 ELSE 0) ELSE secs

\* a loop without the max_wait break
LoopBreaksOnStableOnly(secs, duration, elapsed, limit) == secs >= duration

\* the two breaks of the loop
LoopBreaks(secs, duration, elapsed, limit) == secs >= duration \/ elapsed > limit

\* one iteration of the while loop: the capture has shape s and takes lag
\* seconds; the iteration ends in a break or in time.sleep(1)
WaitIteration(s, lag) ==
    LET secs == CountStable(last_df, s, stable_secs)
        elapsed == now + lag
    IN /\ pc = "poll"
       /\ last_df' = s
       /\ stable_secs' = secs
       /\ IF LoopBreaks(secs, stable_duration, elapsed, max_wait)
          THEN pc' = "extract" /\ now' = elapsed
          ELSE pc' = "poll" /\ now' = elapsed + 1

\* the entry of the function: start_time, last_df = None, stable_secs = 0
WaitEntry(limit, duration) ==
    /\ max_wait = limit
    /\ stable_duration = duration
    /\ last_df = <<>>
    /\ stable_secs = 0
    /\ now = 0

(***************************************************************************)
(* The poller on its own, driven by a stub that serves shapes.             *)
(***************************************************************************)
PollShapes == {<<5, 3>>, <<6, 3>>}

InitPoll ==
    /\ pc = "poll"
    /\ \E limit \in 0..MaxWait, duration \in 0..MaxStable : WaitEntry(limit, duration)
    /\ samples = <<>>
    /\ sessions = 1 /\ queries = 1 /\ fetched = "running" /\ final_page = <<>>
    /\ courses_df = <<>> /\ grades_file = [readable |-> FALSE, rows |-> <<>>]
    /\ report = NoReport

ServeSample ==
    \E s \in PollShapes, lag \in 0..MaxLag :
        /\ WaitIteration(s, lag)
        /\ samples' = Append(samples, s)
        /\ UNCHANGED <<max_wait, stable_duration, sessions, queries, fetched,
                       final_page, courses_df, grades_file, report>>

NextPoll == ServeSample

SpecPoll == InitPoll /\ [][NextPoll]_vars /\ WF_vars(NextPoll)

(***************************************************************************)
(* Claims about the poller (SpecPoll).                                     *)
(***************************************************************************)
Script8 == << <<5, 3>>, <<5, 3>>, <<6, 3>>, <<6, 3>>, <<6, 3>>, <<6, 3>>, <<6, 3>>, <<6, 3>> >>

Script9 == Append(Script8, <<6, 3>>)

IsPrefix(s, t) == Len(s) <= Len(t) /\ SubSeq(t, 1, Len(s)) = s

Returned == pc = "extract"

\* the wait has not ended by exceeding max_wait
NotTimedOut == pc = "poll" \/ now <= max_wait

\* C1 as stated: on the eight samples of the script, with stable_duration 6
\* and max_wait not reached, the poller is still running before the 8th
\* sample, has returned on the 8th, and takes no 9th.
C1_StopsAtTick8 ==
    (stable_duration = 6 /\ NotTimedOut) =>
        /\ (IsPrefix(samples, Script8) /\ Len(samples) < 8) => ~Returned
        /\ samples = Script8 => Returned
        /\ ~(IsPrefix(Script8, samples) /\ Len(samples) > 8)

\* C1 amended: on the eight samples of the script, with stable_duration 6
\* and max_wait not reached, the poller has not returned at tick 8, where its
\* counter is 5; it takes a 9th sample and, when that is (6,3) again, stops
\* exactly at tick 9.
C1_StopsAtTick9 ==
    (stable_duration = 6 /\ NotTimedOut) =>
        /\ IsPrefix(samples, Script8) => ~Returned
        /\ samples = Script8 => stable_secs = 5
        /\ samples = Script9 => Returned /\ stable_secs = 6
        /\ ~(IsPrefix(Script9, samples) /\ Len(samples) > 9)

C1_Witness ==
    samples = Script9 /\ stable_duration = 6 /\ Returned /\ now <= max_wait

\* the number of consecutive ticks, up to the last one, whose shape is that
\* of the tick before
RECURSIVE Unchanged(_)
Unchanged(h) ==
    IF Len(h) < 2 THEN 0
    ELSE IF h[Len(h)] = h[Len(h) - 1] THEN Unchanged(SubSeq(h, 1, Len(h) - 1)) + 1
    ELSE 0

\* the elapsed time read by the last iteration
LastElapsed == IF pc = "poll" THEN now - 1 ELSE now

\* the counter is the run of unchanged ticks of the history; the loop goes on
\* only while neither break condition held, and has returned only on one
C2_ReturnsAtFirstTick ==
    /\ stable_secs = Unchanged(samples)
    /\ (pc = "poll" /\ samples # <<>>) =>
          stable_secs < stable_duration /\ LastElapsed <= max_wait
    /\ Returned => stable_secs >= stable_duration \/ LastElapsed > max_wait

\* C2: for every sequence of shapes, max_wait >= 0 and stable_duration >= 0
\* the poller eventually returns; it returns at the first tick at which the
\* counter of consecutive unchanged ticks has reached stable_duration or the
\* elapsed time exceeds max_wait; the counter is 0 after a tick whose shape
\* differs from the prior tick.
C2_PollerTerminates ==
    /\ []C2_ReturnsAtFirstTick
    /\ <>Returned

\* C2 witness: a wait over a shape that changes on every tick, ended by
\* max_wait with the counter at 0 and below stable_duration.
C2_Witness ==
    /\ Returned /\ Len(samples) >= 4 /\ stable_secs = 0 /\ stable_duration > 0
    /\ now > max_wait
    /\ \A i \in 2..Len(samples) : samples[i] # samples[i - 1]

(***************************************************************************)
(* get_professor_courses and main: the query loop.                         *)
(***************************************************************************)
\* the table wait_for_table_stabilize and the final parse see in a capture
PageRows == SeqsUpTo({[Year |-> Y23, Semester |-> Sem1, Course |-> CS],
                      [Year |-> Y23, Semester |-> SemBad, Course |-> CS]}, MaxRows)

Pages == {NoPage} \cup {Page(TRUE, h, rows) : h \in BOOLEAN, rows \in PageRows}

\* df_current.shape: an unparseable capture is pd.DataFrame(), of shape (0, 0);
\* the header row is dropped; the remote table is taken to have 3 columns
ShapeOf(page) == IF page.table THEN <<Len(page.rows), 3>> ELSE <<0, 0>>

\* grades.xlsx in the query loop
MainFiles ==
    { [readable |-> FALSE, rows |-> <<>>],
      [readable |-> TRUE, rows |-> <<>>],
      [readable |-> TRUE, rows |-> <<GradeRow(Y23Sem1, "A", 1)>>],
      [readable |-> TRUE, rows |-> <<GradeRow(Y23SemBad, "A", 1)>>] }

InitMain ==
    /\ pc = "prompt"
    /\ sessions = 0 /\ queries = 0 /\ fetched = "none" /\ final_page = <<>>
    /\ courses_df = <<>>
    /\ grades_file \in MainFiles
    /\ report = NoReport
    /\ max_wait = 0 /\ stable_duration = 0 /\ last_df = <<>> /\ stable_secs = 0
    /\ now = 0 /\ samples = <<>>

PollVars == <<max_wait, stable_duration, last_df, stable_secs, now>>

\* a driver.quit() placed before the return only, without try/finally
QuitBeforeReturnOnly(raised) ==
    IF raised THEN UNCHANGED sessions ELSE sessions' = sessions - 1

\* the `finally: driver.quit()` of get_professor_courses
FinallyQuit(raised) == sessions' = sessions - 1

\* an exception leaves get_professor_courses through its finally clause and
\* then main, which handles none
Raise(exc) ==
    /\ FinallyQuit(TRUE)
    /\ fetched' = exc
    /\ pc' = "crashed"

\* input(...).strip() is empty: main prints and breaks
PromptEmpty ==
    /\ pc = "prompt"
    /\ pc' = "exited"
    /\ UNCHANGED <<PollVars, samples, sessions, queries, fetched, final_page,
                   courses_df, grades_file, report>>

\* a professor name is entered: main calls get_professor_courses
PromptName ==
    /\ pc = "prompt"
    /\ queries < MaxQueries
    /\ queries' = queries + 1
    /\ pc' = "open"
    /\ fetched' = "running"
    /\ final_page' = <<>>
    /\ courses_df' = <<>>
    /\ report' = NoReport
    /\ UNCHANGED <<PollVars, samples, sessions, grades_file>>

\* webdriver.Chrome(...), before the try: a failure opens no session
OpenSession ==
    /\ pc = "open"
    /\ \E ok \in BOOLEAN :
          IF ok
          THEN sessions' = sessions + 1 /\ pc' = "navigate" /\ UNCHANGED fetched
          ELSE UNCHANGED sessions /\ pc' = "crashed" /\ fetched' = "WebDriverException"
    /\ UNCHANGED <<PollVars, samples, queries, final_page, courses_df, grades_file, report>>

\* driver.get, the wait for the name field, send_keys, click
Navigate ==
    /\ pc = "navigate"
    /\ \E ok \in BOOLEAN :
          IF ok
          THEN pc' = "frame" /\ UNCHANGED <<sessions, fetched>>
          ELSE Raise("TimeoutException")
    /\ UNCHANGED <<PollVars, samples, queries, final_page, courses_df, grades_file, report>>

\* the wait for the stu_course frame
SwitchFrame ==
    /\ pc = "frame"
    /\ \E ok \in BOOLEAN :
          IF ok
          THEN pc' = "table" /\ UNCHANGED <<sessions, fetched>>
          ELSE Raise("TimeoutException")
    /\ UNCHANGED <<PollVars, samples, queries, final_page, courses_df, grades_file, report>>

\* the wait for a table element, then the call of wait_for_table_stabilize
FindTable ==
    /\ pc = "table"
    /\ \E ok \in BOOLEAN :
          IF ok
          THEN /\ pc' = "poll"
               /\ max_wait' = DefaultMaxWait
               /\ stable_duration' = DefaultStableDuration
               /\ last_df' = <<>>
               /\ stable_secs' = 0
               /\ now' = 0
               /\ UNCHANGED <<sessions, fetched>>
          ELSE Raise("TimeoutException") /\ UNCHANGED PollVars
    /\ UNCHANGED <<samples, queries, final_page, courses_df, grades_file, report>>

\* one iteration of wait_for_table_stabilize on the page as it is then
Capture ==
    /\ \E page \in Pages, lag \in 0..MaxLag : WaitIteration(ShapeOf(page), lag)
    /\ UNCHANGED <<max_wait, stable_duration, samples, sessions, queries, fetched,
                   final_page, courses_df, grades_file, report>>

\* driver.page_source raises inside the loop
CaptureRaises ==
    /\ pc = "poll"
    /\ Raise("WebDriverException")
    /\ UNCHANGED <<PollVars, samples, queries, final_page, courses_df, grades_file, report>>

\* the final parse: read_html raises ValueError without a table, the column
\* selection raises KeyError without the three headers
Extract ==
    /\ pc = "extract"
    /\ \E page \in Pages :
          /\ final_page' = <<page>>
          /\ IF ~page.table THEN Raise("ValueError") /\ UNCHANGED courses_df
             ELSE IF ~page.headers THEN Raise("KeyError") /\ UNCHANGED courses_df
             ELSE /\ courses_df' = page.rows
                  /\ FinallyQuit(FALSE)
                  /\ fetched' = "returned"
                  /\ pc' = "fetched"
    /\ UNCHANGED <<PollVars, samples, queries, grades_file, report>>

NextMain ==
    \/ PromptEmpty
    \/ PromptName
    \/ OpenSession
    \/ Navigate
    \/ SwitchFrame
    \/ FindTable
    \/ Capture
    \/ CaptureRaises
    \/ Extract
    \/ RunBody

SpecMain == InitMain /\ [][NextMain]_vars

(***************************************************************************)
(* Claims about the query loop (SpecMain).                                 *)
(***************************************************************************)
InSession == pc \in {"navigate", "frame", "table", "poll", "extract"}

\* C3: the session get_professor_courses opens is released on every exit
\* path of the query, normal or by an exception of the navigation, the frame
\* switch, the polling or the extraction: at most one session is ever live,
\* one is live only inside get_professor_courses, and none when the next
\* query begins or main has ended.
C3_SessionReleased ==
    /\ sessions \in {0, 1}
    /\ sessions = 1 <=> InSession

\* C3 witness: the second query of a run ended by an exception of the final
\* parse, after a first query that returned; no session is left.
C3_Witness ==
    pc = "crashed" /\ queries = 2 /\ fetched = "ValueError" /\ sessions = 0

\* a failure inside the current query
QueryFailed ==
    \/ report.kind = "raised"
    \/ fetched \in {"ValueError", "KeyError"}

\* C4: a failure inside one query (grade file unreadable, a Semester that is
\* no integer, a failed extraction) ends that query only: main is back at its
\* prompt and has not been terminated.
C4_FailureReturnsToPrompt == QueryFailed => pc \in {"prompt", "exited"}

\* C5: when the final capture holds no table (as when the table was absent
\* throughout polling) or its header row lacks the expected names, the query
\* ends with "no courses found", neither with a crash nor with a report.
C5_NoTableMeansNoCourses ==
    (final_page # <<>> /\ (~final_page[1].table \/ ~final_page[1].headers)) =>
        pc \in {"prompt", "exited"} /\ report.kind = "no_courses"

\* C9: a query that extracts zero course rows ends with "no courses found",
\* without loading the grade file and without a table or chart, and main is
\* back at its prompt.
C9_EmptyShortCircuits ==
    (fetched = "returned" /\ courses_df = <<>> /\ pc # "fetched") =>
        /\ pc \in {"prompt", "exited"}
        /\ report.kind = "no_courses"
        /\ ~report.loaded
        /\ report.table = {}

\* C9 witness: a header-only table, with a grade file whose load would fail.
C9_Witness ==
    /\ pc = "prompt" /\ report.kind = "no_courses"
    /\ final_page = <<Page(TRUE, TRUE, <<>>)>>
    /\ ~grades_file.readable

====
